---- MODULE Spec2Model ----
(***************************************************************************)
(* A model of the dealstash marketplace (Django): the three tables of      *)
(* marketplace/models.py, the request handlers of marketplace/views.py,    *)
(* the signup form of marketplace/forms.py and the order change form the   *)
(* admin site generates from marketplace/admin.py.                         *)
(*                                                                         *)
(* Money is an integer number of cents (DecimalField, decimal_places=2).   *)
(* A product of Decimals that has more than two places is carried in       *)
(* hundredths of a cent until it is written to its column.                 *)
(* Columns that no handler reads back (names, description, image, website, *)
(* created_at, the buyer's name and address on a stored order) are         *)
(* validated where the form validates them but are not kept in the rows.   *)
(*                                                                         *)
(* Four specifications share the actions:                                  *)
(*   Spec       accounts and catalogue from an empty store: signup,        *)
(*              product creation, orders, and the three delete paths;      *)
(*   SpecOwners signup, product creation, edit and delete by any user;     *)
(*   SpecShop   one seller's shop with ADMINS configured: products, price  *)
(*              edits, orders and the admin's order change form;           *)
(*   SpecConc   order_create split into its store accesses, for requests   *)
(*              that overlap.                                              *)
(* In the first three a request is handled as one step.                    *)
(***************************************************************************)
EXTENDS Integers, Sequences, FiniteSets, TLC

VARIABLES
    db,      \* the relational store: users, companies, products, orders, sequences
    ADMINS,  \* settings.ADMINS, reduced to its addresses (fixed for a run)
    last,    \* the request just handled and what it answered
    req      \* order_create requests in flight (used by SpecConc only)

vars == <<db, ADMINS, last, req>>

----------------------------------------------------------------------------
(* Bounds of the model *)

\* user accounts created by seller_signup
MaxSignups == 2
\* products ever created
MaxProducts == 1
\* orders ever created
MaxOrders == 1
\* order placements that overlap in SpecConc
NumRequests == 2

----------------------------------------------------------------------------
(* Input domains *)

Emails == {"a@x.com", "b@x.com"}
MalformedEmail == "not-an-email"
Prices == {15, 1999}                \* 0.15 and 19.99
AdminAddresses == {"ops@x.com"}

STATUS_CHOICES == {"pending", "paid", "shipped", "completed", "cancelled"}

CommissionRatePercent == 10         \* Decimal("0.10")

NoUser == 0                         \* AnonymousUser, or "no acting user recorded"

EmailValidator(e) == e \in Emails \cup AdminAddresses

SignupInputs ==
    {[email |-> e, passwords_match |-> TRUE] : e \in Emails}
      \cup {[email |-> MalformedEmail, passwords_match |-> TRUE],
            [email |-> "a@x.com", passwords_match |-> FALSE]}

ProductInputs ==
    {[name |-> "widget", price |-> p] : p \in Prices}
      \cup {[name |-> "", price |-> 15]}

OrderInputs ==
    {[buyer_name |-> "bob", buyer_email |-> "a@x.com", quantity |-> q] : q \in {0, 3}}
      \cup {[buyer_name |-> "", buyer_email |-> "a@x.com", quantity |-> 3],
            [buyer_name |-> "bob", buyer_email |-> MalformedEmail, quantity |-> 3],
            [buyer_name |-> "bob", buyer_email |-> "a@x.com", quantity |-> -1]}

\* One accepted and one rejected submission
FewOrderInputs ==
    {[buyer_name |-> "bob", buyer_email |-> "a@x.com", quantity |-> 3],
     [buyer_name |-> "", buyer_email |-> "a@x.com", quantity |-> 3]}

NoData == [buyer_name |-> "-", buyer_email |-> "-", quantity |-> 0]

ProductPks == 1 .. MaxProducts
OrderPks == 1 .. MaxOrders
CompanyPks == 1 .. MaxSignups

\* What the staff user submits in the admin's order change form: every
\* editable column of Order, the two computed ones included.
AdminOrderInputs ==
    {[product |-> p, quantity |-> q, status |-> s, total_price |-> 777, commission |-> 7] :
        p \in ProductPks, q \in {0, 3}, s \in STATUS_CHOICES}
      \cup {[product |-> 1, quantity |-> -1, status |-> "paid",
             total_price |-> 777, commission |-> 7]}

----------------------------------------------------------------------------
(* Rows and tables *)

Restrict(f, S) == [x \in S |-> f[x]]

EmptyTable == [x \in {} |-> x]

Insert(table, pk, row) == (pk :> row) @@ table

\* AutoField: the next value of a table's sequence
\* (a key that ignores the sequence)
NextPkStale(seq) == 1
NextPk(seq) == seq + 1

\* request.user.company (the reverse side of Company.user)
CompaniesOf(d, u) == {c \in DOMAIN d.companies : d.companies[c].user = u}

has_company(d, u) == CompaniesOf(d, u) # {}

----------------------------------------------------------------------------
(* Order.save *)

\* Decimal.quantize to two places under the default context (ROUND_HALF_EVEN),
\* which is how a DecimalField(decimal_places=2) value reaches its column.
\* x is in hundredths of a cent, the result in cents.
Quantize(x) ==
    LET q == x \div 100
        r == x % 100
    IN  IF 2 * r < 100 THEN q
        ELSE IF 2 * r > 100 THEN q + 1
        ELSE IF q % 2 = 0 THEN q ELSE q + 1

\* inst: the instance being saved; product: the related instance it holds
\* (self.product), a record [pk, price].
\* (a save that writes the instance's totals as they are)
Order_save_keep_totals(d, pk, inst, product) ==
    [d EXCEPT !.orders = Insert(@, pk,
        [product |-> product.pk, quantity |-> inst.quantity,
         total_price |-> inst.total_price, commission |-> inst.commission,
         status |-> inst.status])]
Order_save(d, pk, inst, product) ==
    LET total_price == product.price * inst.quantity
        commission == total_price * CommissionRatePercent
    IN  [d EXCEPT !.orders = Insert(@, pk,
            [product |-> product.pk, quantity |-> inst.quantity,
             total_price |-> total_price, commission |-> Quantize(commission),
             status |-> inst.status])]

seller_earnings(order) == order.total_price - order.commission

----------------------------------------------------------------------------
(* Deletion: on_delete=models.CASCADE on Product.company and Order.product *)

Product_delete(d, pk) ==
    [d EXCEPT !.products = Restrict(@, DOMAIN @ \ {pk}),
              !.orders = Restrict(@, {o \in DOMAIN @ : @[o].product # pk})]

\* (a delete that stops at the products)
Company_delete_keep_orders(d, pk) ==
    LET owned == {p \in DOMAIN d.products : d.products[p].company = pk}
    IN  [d EXCEPT !.companies = Restrict(@, DOMAIN @ \ {pk}),
                  !.products = Restrict(@, DOMAIN @ \ owned)]
Company_delete(d, pk) ==
    LET owned == {p \in DOMAIN d.products : d.products[p].company = pk}
    IN  [d EXCEPT !.companies = Restrict(@, DOMAIN @ \ {pk}),
                  !.products = Restrict(@, DOMAIN @ \ owned),
                  !.orders = Restrict(@, {o \in DOMAIN @ : @[o].product \notin owned})]

----------------------------------------------------------------------------
(* Forms *)

\* UserCreationForm plus the required EmailField of SellerSignUpForm
SellerSignUpForm_is_valid(data) ==
    EmailValidator(data.email) /\ data.passwords_match

\* SellerSignUpForm.save(commit=True): user.save(), then Company.objects.create.
\* No transaction surrounds the two writes, so the user row stays when the
\* unique constraint on Company.email rejects the second one.
SellerSignUpForm_save(d, data) ==
    LET user == NextPk(d.seq.user)
        company == NextPk(d.seq.company)
        d1 == [d EXCEPT !.users = Insert(@, user, [is_staff |-> FALSE]),
                        !.seq.user = user]
    IN  IF \E c \in DOMAIN d.companies : d.companies[c].email = data.email
        THEN [db |-> d1, user |-> user, raised |-> TRUE]
        ELSE [db |-> [d1 EXCEPT !.companies =
                          Insert(@, company, [user |-> user, email |-> data.email]),
                      !.seq.company = company],
              user |-> user, raised |-> FALSE]

\* ProductForm: name is required, price is a decimal
ProductForm_is_valid(data) == data.name # ""

\* OrderForm: buyer_name required, buyer_email an address, quantity the form
\* field of a PositiveIntegerField, whose lower limit is 0.
OrderForm_is_valid(data) ==
    /\ data.buyer_name # ""
    /\ EmailValidator(data.buyer_email)
    /\ data.quantity >= 0

\* The admin's ModelForm for Order: the same column validators, and the
\* chosen product must exist.
OrderAdminForm_is_valid(d, data) ==
    /\ data.product \in DOMAIN d.products
    /\ data.quantity >= 0
    /\ data.status \in STATUS_CHOICES

----------------------------------------------------------------------------
(* Permission checks *)

\* @login_required
is_authenticated(d, u) == u \in DOMAIN d.users

\* @staff_member_required, and the admin site's has_permission
is_staff(d, u) == u \in DOMAIN d.users /\ d.users[u].is_staff

\* views.py: not (not hasattr(user, "company") or user.company != product.company)
\* (a check that only asks for some company)
may_modify_any_seller(d, u, pk) == has_company(d, u)
may_modify(d, u, pk) ==
    /\ has_company(d, u)
    /\ \E c \in CompaniesOf(d, u) : c = d.products[pk].company

----------------------------------------------------------------------------
(* _send_order_emails *)

\* The messages handed to the mail transport, in order, and whether a send
\* raised. seller_fails / admin_fails say what the transport does with the
\* seller-bound and the admin-bound message if it is given them.
send_order_emails(d, order, admin_emails, seller_fails, admin_fails) ==
    LET product == d.products[d.orders[order].product]
        company == d.companies[product.company]
        to_seller == company.email # ""
        seller_raised == to_seller /\ seller_fails
        to_admin == ~seller_raised /\ admin_emails # {}
        admin_raised == to_admin /\ admin_fails
    IN  [mails |-> (IF to_seller THEN <<[to |-> "seller", sent |-> ~seller_fails]>> ELSE <<>>)
                   \o (IF to_admin THEN <<[to |-> "admin", sent |-> ~admin_fails]>> ELSE <<>>),
         raised |-> seller_raised \/ admin_raised]

----------------------------------------------------------------------------
(* Requests and responses *)

\* What a handler answered: an HTTP outcome, the level of the message it
\* queued, the mails it handed to the transport and the number of rows a
\* delete() removed, with the request it answers.
Response(op, method, user, pk, data, status, message) ==
    [op |-> op, method |-> method, user |-> user, pk |-> pk, data |-> data,
     status |-> status, message |-> message, mails |-> <<>>, deleted |-> 0]

NoResponse == Response("none", "-", NoUser, 0, NoData, "-", "none")

Rows(d) ==
    Cardinality(DOMAIN d.companies) + Cardinality(DOMAIN d.products)
        + Cardinality(DOMAIN d.orders)

Methods == {"GET", "POST"}

\* request.user: AnonymousUser or one of the accounts
Actors == {NoUser} \cup DOMAIN db.users

----------------------------------------------------------------------------
(* views.py, one action per handler *)

seller_signup(method) ==
    /\ UNCHANGED <<ADMINS, req>>
    /\ \E data \in SignupInputs :
         IF method = "POST" /\ SellerSignUpForm_is_valid(data)
         THEN /\ db.seq.user < 1 + MaxSignups
              /\ LET saved == SellerSignUpForm_save(db, data)
                 IN  /\ db' = saved.db
                     /\ last' = IF saved.raised
                                THEN Response("seller_signup", "-", saved.user, 0,
                                              NoData, "server_error", "none")
                                ELSE Response("seller_signup", "-", saved.user, 0,
                                              NoData, "redirect", "success")
         ELSE /\ db' = db
              /\ last' = Response("seller_signup", "-", NoUser, 0, NoData,
                                  "form", "none")

product_create(u, method) ==
    /\ UNCHANGED <<ADMINS, req>>
    /\ IF ~is_authenticated(db, u)
       THEN /\ db' = db
            /\ last' = Response("product_create", "-", NoUser, 0, NoData,
                                "login_redirect", "none")
       ELSE IF ~has_company(db, u)
       THEN /\ db' = db
            /\ last' = Response("product_create", "-", NoUser, 0, NoData,
                                "signup_redirect", "error")
       ELSE \E data \in ProductInputs :
            IF method = "POST" /\ ProductForm_is_valid(data)
            THEN /\ db.seq.product < MaxProducts
                 /\ LET pk == NextPk(db.seq.product)
                        company == CHOOSE c \in CompaniesOf(db, u) : TRUE
                    IN  /\ db' = [db EXCEPT
                                    !.products = Insert(@, pk, [company |-> company,
                                                                price |-> data.price]),
                                    !.seq.product = pk]
                        /\ last' = Response("product_create", "-", NoUser, 0, NoData,
                                            "redirect", "success")
            ELSE /\ db' = db
                 /\ last' = Response("product_create", "-", NoUser, 0, NoData,
                                     "form", "none")

\* ProductForm(instance=product).save(): one UPDATE of the product's row
\* (a save that also re-saves the product's orders)
ProductForm_save_and_resave_orders(d, pk, data) ==
    LET d1 == [d EXCEPT !.products[pk].price = data.price]
    IN  [d1 EXCEPT !.orders =
            [o \in DOMAIN @ |->
                IF @[o].product = pk
                THEN Order_save(d1, o, @[o], [pk |-> pk, price |-> data.price]).orders[o]
                ELSE @[o]]]
ProductForm_save(d, pk, data) ==
    [d EXCEPT !.products[pk].price = data.price]

product_edit(u, pk, method) ==
    /\ UNCHANGED <<ADMINS, req>>
    /\ IF ~is_authenticated(db, u)
       THEN /\ db' = db
            /\ last' = Response("product_edit", method, u, pk, NoData,
                                "login_redirect", "none")
       ELSE IF pk \notin DOMAIN db.products
       THEN /\ db' = db
            /\ last' = Response("product_edit", method, u, pk, NoData,
                                "not_found", "none")
       ELSE IF ~may_modify(db, u, pk)
       THEN /\ db' = db
            /\ last' = Response("product_edit", method, u, pk, NoData,
                                "forbidden", "none")
       ELSE \E data \in ProductInputs :
            IF method = "POST" /\ ProductForm_is_valid(data)
            THEN /\ db' = ProductForm_save(db, pk, data)
                 /\ last' = Response("product_edit", method, u, pk, NoData,
                                     "redirect", "success")
            ELSE /\ db' = db
                 /\ last' = Response("product_edit", method, u, pk, NoData,
                                     "form", "none")

product_delete(u, pk, method) ==
    /\ UNCHANGED <<ADMINS, req>>
    /\ IF ~is_authenticated(db, u)
       THEN /\ db' = db
            /\ last' = Response("product_delete", method, u, pk, NoData,
                                "login_redirect", "none")
       ELSE IF pk \notin DOMAIN db.products
       THEN /\ db' = db
            /\ last' = Response("product_delete", method, u, pk, NoData,
                                "not_found", "none")
       ELSE IF ~may_modify(db, u, pk)
       THEN /\ db' = db
            /\ last' = Response("product_delete", method, u, pk, NoData,
                                "forbidden", "none")
       ELSE IF method = "POST"
       THEN /\ db' = Product_delete(db, pk)
            /\ last' = [Response("product_delete", method, u, pk, NoData,
                                 "redirect", "success")
                        EXCEPT !.deleted = Rows(db) - Rows(db')]
       ELSE /\ db' = db
            /\ last' = Response("product_delete", method, u, pk, NoData,
                                "form", "none")

\* form.save(commit=False): a new Order with the model's defaults
NewOrder(data) ==
    [quantity |-> data.quantity, total_price |-> 0, commission |-> 0,
     status |-> "pending"]

\* The end of order_create once the order is saved: notify, and on any
\* exception log it and queue a warning instead of the success message.
\* (a failure that takes the order back out)
notify_rolls_back(d, order, admin_emails, seller_fails, admin_fails) ==
    LET sent == send_order_emails(d, order, admin_emails, seller_fails, admin_fails)
    IN  [db |-> IF sent.raised
                THEN [d EXCEPT !.orders = Restrict(@, DOMAIN @ \ {order})]
                ELSE d,
         mails |-> sent.mails,
         status |-> "redirect",
         message |-> IF sent.raised THEN "warning" ELSE "success"]
notify(d, order, admin_emails, seller_fails, admin_fails) ==
    LET sent == send_order_emails(d, order, admin_emails, seller_fails, admin_fails)
    IN  [db |-> d,
         mails |-> sent.mails,
         status |-> "redirect",
         message |-> IF sent.raised THEN "warning" ELSE "success"]

order_create(pk, method, inputs) ==
    /\ UNCHANGED <<ADMINS, req>>
    /\ IF pk \notin DOMAIN db.products
       THEN /\ db' = db
            /\ last' = Response("order_create", method, NoUser, pk, NoData,
                                "not_found", "none")
       ELSE IF method = "POST"
       THEN \E data \in inputs :
            IF OrderForm_is_valid(data)
            THEN /\ db.seq.order < MaxOrders
                 /\ \E seller_fails \in BOOLEAN, admin_fails \in BOOLEAN :
                    LET order == NextPk(db.seq.order)
                        product == [pk |-> pk, price |-> db.products[pk].price]
                        d1 == Order_save([db EXCEPT !.seq.order = order], order,
                                         NewOrder(data), product)
                        done == notify(d1, order, ADMINS, seller_fails, admin_fails)
                    IN  /\ db' = done.db
                        /\ last' = [Response("order_create", method, NoUser, pk, data,
                                             done.status, done.message)
                                    EXCEPT !.mails = done.mails]
            ELSE /\ db' = db
                 /\ last' = Response("order_create", method, NoUser, pk, data,
                                     "form", "none")
       ELSE /\ db' = db
            /\ last' = Response("order_create", method, NoUser, pk, NoData,
                                "form", "none")

product_delete_confirm_staff(u, pk, method) ==
    /\ UNCHANGED <<ADMINS, req>>
    /\ IF ~is_staff(db, u)
       THEN /\ db' = db
            /\ last' = Response("product_delete_confirm_staff", "-", NoUser, pk,
                                NoData, "login_redirect", "none")
       ELSE IF pk \notin DOMAIN db.products
       THEN /\ db' = db
            /\ last' = Response("product_delete_confirm_staff", "-", NoUser, pk,
                                NoData, "not_found", "none")
       ELSE IF method = "POST"
       THEN /\ db' = Product_delete(db, pk)
            /\ last' = [Response("product_delete_confirm_staff", "-", NoUser, pk,
                                 NoData, "redirect", "success")
                        EXCEPT !.deleted = Rows(db) - Rows(db')]
       ELSE /\ db' = db
            /\ last' = Response("product_delete_confirm_staff", "-", NoUser, pk,
                                NoData, "form", "none")

company_delete_confirm_staff(u, pk, method) ==
    /\ UNCHANGED <<ADMINS, req>>
    /\ IF ~is_staff(db, u)
       THEN /\ db' = db
            /\ last' = Response("company_delete_confirm_staff", "-", NoUser, pk,
                                NoData, "login_redirect", "none")
       ELSE IF pk \notin DOMAIN db.companies
       THEN /\ db' = db
            /\ last' = Response("company_delete_confirm_staff", "-", NoUser, pk,
                                NoData, "not_found", "none")
       ELSE IF method = "POST"
       THEN /\ db' = Company_delete(db, pk)
            /\ last' = [Response("company_delete_confirm_staff", "-", NoUser, pk,
                                 NoData, "redirect", "success")
                        EXCEPT !.deleted = Rows(db) - Rows(db')]
       ELSE /\ db' = db
            /\ last' = Response("company_delete_confirm_staff", "-", NoUser, pk,
                                NoData, "form", "none")

----------------------------------------------------------------------------
(* admin.py: the change view of OrderAdmin, POST *)

\* ModelAdmin.save_model: the form's values are put on the instance, then
\* obj.save() runs Order.save.
OrderAdmin_save_model(d, pk, data) ==
    Order_save(d, pk,
               [quantity |-> data.quantity, total_price |-> data.total_price,
                commission |-> data.commission, status |-> data.status],
               [pk |-> data.product, price |-> d.products[data.product].price])

admin_order_change(u, pk) ==
    /\ UNCHANGED <<ADMINS, req>>
    /\ IF ~is_staff(db, u)
       THEN /\ db' = db
            /\ last' = Response("admin_order_change", "-", NoUser, pk, NoData,
                                "login_redirect", "none")
       ELSE IF pk \notin DOMAIN db.orders
       THEN /\ db' = db
            /\ last' = Response("admin_order_change", "-", NoUser, pk, NoData,
                                "not_found", "none")
       ELSE \E data \in AdminOrderInputs :
            IF OrderAdminForm_is_valid(db, data)
            THEN /\ db' = OrderAdmin_save_model(db, pk, data)
                 /\ last' = Response("admin_order_change", "-", NoUser, pk, NoData,
                                     "redirect", "success")
            ELSE /\ db' = db
                 /\ last' = Response("admin_order_change", "-", NoUser, pk, NoData,
                                     "form", "none")

----------------------------------------------------------------------------
(* order_create as the steps of one request, for requests that overlap:    *)
(* the product is read, later the order is inserted, later the mails go.   *)

Requests == 1 .. NumRequests

Idle == [pc |-> "idle", product |-> [pk |-> 0, price |-> 0], quantity |-> 0,
         order |-> 0, status |-> "-", message |-> "none"]

\* get_object_or_404(Product, pk=pk)
oc_get(r) ==
    /\ req[r].pc = "idle"
    /\ UNCHANGED <<db, ADMINS, last>>
    /\ \E pk \in 1 .. NextPk(db.seq.product) :
         req' = [req EXCEPT ![r] =
                   IF pk \in DOMAIN db.products
                   THEN [@ EXCEPT !.pc = "got",
                                  !.product = [pk |-> pk, price |-> db.products[pk].price]]
                   ELSE [@ EXCEPT !.pc = "done", !.status = "not_found"]]

\* OrderForm(request.POST), is_valid, form.save(commit=False), order.save()
oc_post(r) ==
    /\ req[r].pc = "got"
    /\ UNCHANGED <<ADMINS, last>>
    /\ \E data \in OrderInputs :
         IF OrderForm_is_valid(data)
         THEN LET order == NextPk(db.seq.order)
              IN  /\ db' = Order_save([db EXCEPT !.seq.order = order], order,
                                      NewOrder(data), req[r].product)
                  /\ req' = [req EXCEPT ![r].pc = "saved", ![r].order = order,
                                        ![r].quantity = data.quantity]
         ELSE /\ db' = db
              /\ req' = [req EXCEPT ![r].pc = "done", ![r].status = "form"]

\* try: _send_order_emails(order) ... redirect
oc_notify(r) ==
    /\ req[r].pc = "saved"
    /\ UNCHANGED <<ADMINS, last>>
    /\ \E seller_fails \in BOOLEAN, admin_fails \in BOOLEAN :
         LET done == notify(db, req[r].order, ADMINS, seller_fails, admin_fails)
         IN  /\ db' = done.db
             /\ req' = [req EXCEPT ![r].pc = "done", ![r].status = done.status,
                                   ![r].message = done.message]

----------------------------------------------------------------------------
(* Specifications *)

EmptyDb ==
    [users |-> (1 :> [is_staff |-> TRUE]),
     companies |-> EmptyTable,
     products |-> EmptyTable,
     orders |-> EmptyTable,
     seq |-> [user |-> 1, company |-> 0, product |-> 0, order |-> 0]]

\* The state after migrate and createsuperuser: one staff account, no rows
Init ==
    /\ db = EmptyDb
    /\ ADMINS = {}
    /\ last = NoResponse
    /\ req = [r \in Requests |-> Idle]

\* Accounts and catalogue: sellers sign up, list products, take orders;
\* owners and staff delete
Next ==
    \/ \E m \in Methods : seller_signup(m)
    \/ \E u \in Actors, m \in Methods : product_create(u, m)
    \/ \E u \in Actors, pk \in ProductPks, m \in Methods : product_delete(u, pk, m)
    \/ \E pk \in ProductPks, m \in Methods : order_create(pk, m, FewOrderInputs)
    \/ \E u \in Actors, pk \in ProductPks, m \in Methods :
          product_delete_confirm_staff(u, pk, m)
    \/ \E u \in Actors, pk \in CompanyPks, m \in Methods :
          company_delete_confirm_staff(u, pk, m)

Spec == Init /\ [][Next]_vars

\* Sellers and the products they may and may not touch
NextOwners ==
    \/ \E m \in Methods : seller_signup(m)
    \/ \E u \in Actors, m \in Methods : product_create(u, m)
    \/ \E u \in Actors, pk \in ProductPks, m \in Methods : product_edit(u, pk, m)
    \/ \E u \in Actors, pk \in ProductPks, m \in Methods : product_delete(u, pk, m)
    \/ \E pk \in ProductPks, m \in Methods : order_create(pk, m, FewOrderInputs)

SpecOwners == Init /\ [][NextOwners]_vars

\* One seller has signed up (the state seller_signup leaves from Init)
OneSeller == SellerSignUpForm_save(EmptyDb, [email |-> "a@x.com", passwords_match |-> TRUE]).db

InitShop ==
    /\ db = OneSeller
    /\ ADMINS = AdminAddresses
    /\ last = NoResponse
    /\ req = [r \in Requests |-> Idle]

\* One seller's shop and the back office: products, orders and their upkeep
NextShop ==
    \/ \E u \in Actors, m \in Methods : product_create(u, m)
    \/ \E u \in Actors, pk \in ProductPks, m \in Methods : product_edit(u, pk, m)
    \/ \E pk \in ProductPks, m \in Methods : order_create(pk, m, OrderInputs)
    \/ \E u \in Actors, pk \in OrderPks : admin_order_change(u, pk)

SpecShop == InitShop /\ [][NextShop]_vars

\* One seller with one product on offer
InitConc ==
    /\ \E p \in Prices :
         db = [OneSeller EXCEPT !.products = Insert(@, 1, [company |-> 1, price |-> p]),
                                !.seq.product = 1]
    /\ ADMINS \in {{}, AdminAddresses}
    /\ last = NoResponse
    /\ req = [r \in Requests |-> Idle]

NextConc == \E r \in Requests : oc_get(r) \/ oc_post(r) \/ oc_notify(r)

SpecConc == InitConc /\ [][NextConc]_vars

----------------------------------------------------------------------------
(* Properties *)

\* c (cents) is x (hundredths of a cent) rounded to two decimal places,
\* a tie going to the even cent as Python's round() and Decimal do
RoundedTo2(c, x) ==
    /\ 2 * (100 * c - x) <= 100
    /\ 2 * (x - 100 * c) <= 100
    /\ (2 * (x - 100 * c) \in {100, -100} => c % 2 = 0)

\* The orders a step wrote: the new ones, the changed ones and the one an
\* accepted admin change saved
Written(o) ==
    \/ o \notin DOMAIN db.orders
    \/ db'.orders[o] # db.orders[o]
    \/ (last'.op = "admin_order_change" /\ last'.message = "success" /\ last'.pk = o)

TotalsCurrent(d, o) ==
    LET row == d.orders[o]
    IN  /\ row.total_price = d.products[row.product].price * row.quantity
        /\ RoundedTo2(row.commission, row.total_price * CommissionRatePercent)
        /\ seller_earnings(row) + row.commission = row.total_price

SomeSendFailed(mails) == \E i \in DOMAIN mails : ~mails[i].sent

C3_SendsIndependent ==
    (last.op = "order_create" /\ last.status = "redirect")
    => /\ \E i \in DOMAIN last.mails : last.mails[i].to = "seller"
       /\ (ADMINS # {} => \E i \in DOMAIN last.mails : last.mails[i].to = "admin")

Owns(d, u, pk) ==
    \E c \in DOMAIN d.companies :
        d.companies[c].user = u /\ d.products[pk].company = c

\* C4: product_edit and product_delete change the store only for an identity
\* whose company owns the product; for a logged-in identity with no company or
\* another company the answer is PermissionDenied and nothing changes, GET or
\* POST.
C4_OnlyOwnerModifies ==
    [][last'.op \in {"product_edit", "product_delete"}
       => /\ (db' # db => last'.pk \in DOMAIN db.products
                          /\ Owns(db, last'.user, last'.pk))
          /\ (/\ last'.user \in DOMAIN db.users
              /\ last'.pk \in DOMAIN db.products
              /\ ~Owns(db, last'.user, last'.pk))
             => (last'.status = "forbidden" /\ db' = db)]_vars

\* A seller with a company of their own was refused the edit of another
\* company's product.
C4_Witness ==
    /\ last.op = "product_edit"
    /\ last.method = "POST"
    /\ last.status = "forbidden"
    /\ has_company(db, last.user)
    /\ last.pk \in DOMAIN db.products

\* C5: signup is all-or-nothing: when creating the Company fails after the
\* user was saved, no new user account remains.
C5_SignupAllOrNothing ==
    (last.op = "seller_signup" /\ last.status = "server_error")
    => last.user \notin DOMAIN db.users

\* C6: deleting a Company removes its Products and their Orders, deleting a
\* Product removes its Orders: every Product references an existing Company
\* and every Order an existing Product.
C6_ReferencesExist ==
    /\ \A p \in DOMAIN db.products : db.products[p].company \in DOMAIN db.companies
    /\ \A o \in DOMAIN db.orders : db.orders[o].product \in DOMAIN db.products

\* Staff deleted a company, and its product and that product's order went
\* with it.
C6_Witness ==
    /\ last.op = "company_delete_confirm_staff"
    /\ last.message = "success"
    /\ last.deleted = 3
    /\ DOMAIN db.products = {}
    /\ DOMAIN db.orders = {}

StatusEdges ==
    {<<"pending", "paid">>, <<"paid", "shipped">>, <<"shipped", "completed">>,
     <<"pending", "cancelled">>}

\* C7: an Order's status changes only along pending -> paid -> shipped ->
\* completed or pending -> cancelled, the admin's order edit included.
C7_StatusFollowsEdges ==
    [][\A o \in DOMAIN db.orders \cap DOMAIN db'.orders :
          db'.orders[o].status # db.orders[o].status
          => <<db.orders[o].status, db'.orders[o].status>> \in StatusEdges]_vars

\* C8: an order placement with an empty buyer_name, a malformed buyer_email
\* or a quantity that is not a positive integer, or for a product that does
\* not exist, writes nothing and sends nothing.
C8_RejectedPlacementWritesNothing ==
    [][(/\ last'.op = "order_create"
        /\ last'.method = "POST"
        /\ \/ last'.pk \notin DOMAIN db.products
           \/ last'.data.buyer_name = ""
           \/ ~EmailValidator(last'.data.buyer_email)
           \/ last'.data.quantity < 1)
       => (db' = db /\ last'.mails = <<>>)]_vars

Placed == {r \in Requests : req[r].order # 0}

\* C9: order placements against the same product whose steps interleave each
\* get their own persisted Order, pending, with totals from their own quantity;
\* none overwrites, loses or blocks another.
C9_ConcurrentPlacementsIndependent ==
    /\ \A r \in Placed :
         /\ req[r].order \in DOMAIN db.orders
         /\ db.orders[req[r].order].status = "pending"
         /\ db.orders[req[r].order].product = req[r].product.pk
         /\ db.orders[req[r].order].quantity = req[r].quantity
         /\ db.orders[req[r].order].total_price = req[r].product.price * req[r].quantity
         /\ RoundedTo2(db.orders[req[r].order].commission,
                       req[r].product.price * req[r].quantity * CommissionRatePercent)
    /\ \A r1 \in Placed, r2 \in Placed : r1 # r2 => req[r1].order # req[r2].order
    /\ Cardinality(DOMAIN db.orders) = Cardinality(Placed)
    /\ \A r \in Requests : req[r].pc = "got" => ENABLED oc_post(r)
    /\ \A r \in Requests : req[r].pc = "saved" => ENABLED oc_notify(r)

\* Two placements have finished, one of three items whose mail failed and
\* one of none, each with its own row.
C9_Witness ==
    \E r1 \in Requests, r2 \in Requests :
        /\ r1 # r2
        /\ req[r1].pc = "done" /\ req[r2].pc = "done"
        /\ req[r1].order # 0 /\ req[r2].order # 0
        /\ req[r1].quantity = 3 /\ req[r2].quantity = 0
        /\ req[r1].message = "warning" /\ req[r2].message = "success"

\* C10: a price edit through product_edit leaves every existing Order as it
\* is; the stored totals keep the value of the order's last save.
C10_PriceEditLeavesOrders ==
    [][last'.op = "product_edit" => db'.orders = db.orders]_vars

\* After a price edit an order's stored total differs from the current price
\* times its quantity.
C10_Witness ==
    /\ last.op = "product_edit"
    /\ last.message = "success"
    /\ \E o \in DOMAIN db.orders :
         /\ db.orders[o].product = last.pk
         /\ db.orders[o].total_price # db.products[last.pk].price * db.orders[o].quantity

====
